---- MODULE Spec2Model ----
(***************************************************************************)
(* Model of bible-reading-progress.                                        *)
(*  - The RangeMap of src/range_query.rs: an ordered map from the start of *)
(*    a half-open range to (end, value), with insert_with, insert_replace, *)
(*    coalesce_in_range and the range query (Spec, SpecTotal).             *)
(*  - ReadingProgress of src/progress.rs on top of it (SpecProgress).      *)
(*  - The record form and the manual-add form with their text parsing      *)
(*    (SpecRecord, SpecManual; SpecVerses with verse numbers from 0), and  *)
(*    the statistics and colours the dashboard computes from the progress  *)
(*    (src/widgets/tree_builder.rs).                                       *)
(*  - main and the event loop of src/main.rs with the keys of the          *)
(*    dashboard, of the record form and of the manual form, the progress   *)
(*    file read at start-up and written after an add (SpecApp).            *)
(***************************************************************************)
EXTENDS Integers, Sequences, FiniteSets, TLC

\* ------------------------------------------------------------------ bounds
\* Keys are 0..MaxKey, so a map has at most MaxKey unit cells.
MaxKey == 5
\* Values are 1..MaxVal; an additive merge is only taken while it stays inside.
MaxVal == 2
\* How many inserts over zero-width or inverted ranges one behaviour makes.
MaxIllFormed == 1

Keys == 0 .. MaxKey
Values == 1 .. MaxVal
\* A point p stands for the unit cell [p, p+1).
Points == 0 .. (MaxKey - 1)
\* The merge closures handed to insert_with by the callers and the tests.
Merges == {"replace", "add", "keep_old"}
\* Dates are the days 1..MaxDay.
MaxDay == 2
\* Read counts typed into a form or handed to the API are 0..MaxCount, and
\* mark_read is only taken while the sum stays inside.
MaxCount == 2
\* The longest text typed into a field of a form.
MaxText == 1

Min(S) == CHOOSE x \in S : \A y \in S : x <= y
Max(S) == CHOOSE x \in S : \A y \in S : x >= y
MinOf(a, b) == IF a <= b THEN a ELSE b

RECURSIVE SortedSeq(_)
\* The keys of S in ascending order: the iteration order of a BTreeMap.
SortedSeq(S) == IF S = {} THEN <<>>
                ELSE LET m == Min(S) IN <<m>> \o SortedSeq(S \ {m})

\* ------------------------------------------------------- the ordered map
\* A map is a function from a finite set of starts to <<end, value>>.
EmptyMap == <<>>

\* BTreeMap::insert: a later insert under the same key replaces the entry.
Put(m, s, ev) == [k \in (DOMAIN m) \cup {s} |-> IF k = s THEN ev ELSE m[k]]

\* BTreeMap::remove: removing an absent key does nothing.
Remove(m, s) == [k \in (DOMAIN m) \ {s} |-> m[k]]

RECURSIVE RemoveAll(_, _)
RemoveAll(m, ks) == IF ks = <<>> THEN m
                    ELSE RemoveAll(Remove(m, Head(ks)), Tail(ks))

RECURSIVE PutAll(_, _)
\* `for (s, v) in to_insert { self.map.insert(s, v) }`, in push order.
PutAll(m, ins) == IF ins = <<>> THEN m
                  ELSE PutAll(Put(m, Head(ins)[1], Head(ins)[2]), Tail(ins))

\* `self.map.range(..k).next_back()`: the entry with the greatest start < k,
\* as a set of at most one start.
LastBefore(m, k) == LET L == {s \in DOMAIN m : s < k}
                    IN IF L = {} THEN {} ELSE {Max(L)}

\* ------------------------------------------------------ value protocols
\* The blanket CanCoalesce: Some(self) iff self == other.  An Option is a
\* sequence of length at most one.
Coalesce(a, b) == IF a = b THEN <<a>> ELSE <<>>

\* The merge closure applied to (old, new).
Merge(merge, old, new) ==
    CASE merge = "replace"  -> new
      [] merge = "add"      -> old + new
      [] merge = "keep_old" -> old
      [] merge = "mark_read" ->
            [read_count |-> old.read_count + new.read_count,
             last_read |-> new.last_read]

\* ------------------------------------------------------------ the query
\* The left entry kept when it merely touches the query (e >= start, the
\* filter of range_biinclusive).
RangeLeft_Inclusive(m, qs) == {s \in LastBefore(m, qs) : m[s][1] >= qs}

\* RangeMap::range, when it does not panic.
RangeLeft(m, qs) == {s \in LastBefore(m, qs) : m[s][1] > qs}

RangeQuery(m, qs, qe) ==
    LET left  == RangeLeft(m, qs)
        right == {s \in DOMAIN m : qs <= s /\ s < qe}
        keys  == SortedSeq(left) \o SortedSeq(right)
    IN [i \in 1 .. Len(keys) |-> <<keys[i], m[keys[i]][1], m[keys[i]][2]>>]

\* RangeMap::range_biinclusive, when it does not panic.
RangeBiinclusive(m, rs, re) ==
    LET left  == {s \in LastBefore(m, rs) : m[s][1] >= rs}
        right == {s \in DOMAIN m : rs <= s /\ s <= re}
        keys  == SortedSeq(left) \o SortedSeq(right)
    IN [i \in 1 .. Len(keys) |-> <<keys[i], m[keys[i]][1], m[keys[i]][2]>>]

\* ---------------------------------------------------- coalesce_in_range
\* One iteration of the loop over range_biinclusive: st.cursor is None
\* (<<>>) or Some(<<start, end, curr_value, count>>), r is <<start, end, v>>.
CoalesceStep(st, r) ==
    IF st.cursor = <<>>
    THEN [st EXCEPT !.cursor = << <<r[1], r[2], r[3], 1>> >>]
    ELSE LET cur == st.cursor[1]
             c   == Coalesce(r[3], cur[3])
         IN IF r[1] = cur[2] /\ c # <<>>
            THEN [st EXCEPT !.to_remove = Append(@, r[1]),
                            !.cursor = << <<cur[1], r[2], c[1], cur[4] + 1>> >>]
            ELSE [st EXCEPT !.to_update = IF cur[4] > 1
                                          THEN Append(@, <<cur[1], cur[2], cur[3]>>)
                                          ELSE @,
                            !.cursor = << <<r[1], r[2], r[3], 1>> >>]

RECURSIVE CoalesceLoop(_, _)
CoalesceLoop(st, rs) == IF rs = <<>> THEN st
                        ELSE CoalesceLoop(CoalesceStep(st, Head(rs)), Tail(rs))

RECURSIVE ApplyUpdates(_, _)
\* `for (s, e, value) in to_update`: get_mut(&s), else unreachable!().
ApplyUpdates(r, ups) ==
    IF ups = <<>> THEN r
    ELSE LET u == Head(ups)
         IN IF u[1] \in DOMAIN r.map
            THEN ApplyUpdates([r EXCEPT !.map = Put(r.map, u[1], <<u[2], u[3]>>)],
                              Tail(ups))
            ELSE [r EXCEPT !.panicked = TRUE]

\* The window walked with the half-open range() instead.
CoalesceWindow_HalfOpen(m, rs, re) == RangeQuery(m, rs, re)

\* The entries coalesce_in_range walks for the window rs..=re.
CoalesceWindow(m, rs, re) == RangeBiinclusive(m, rs, re)

\* RangeMap::coalesce_in_range(rs..=re).
CoalesceInRange(m, rs, re) ==
    LET st0 == [cursor |-> <<>>, to_remove |-> <<>>, to_update |-> <<>>]
        st1 == CoalesceLoop(st0, CoalesceWindow(m, rs, re))
        ups == IF st1.cursor # <<>> /\ st1.cursor[1][4] > 1
               THEN Append(st1.to_update,
                           <<st1.cursor[1][1], st1.cursor[1][2], st1.cursor[1][3]>>)
               ELSE st1.to_update
    IN ApplyUpdates([map |-> RemoveAll(m, st1.to_remove), panicked |-> FALSE], ups)

\* ---------------------------------------------------------- insert_with
\* The left step without `*e = start_cursor`: a split left entry keeps its end.
LeftStep_NoShrink(m, rs, re, value, merge) ==
    LET none == [map |-> m, to_insert |-> <<>>, start_cursor |-> rs]
    IN IF LastBefore(m, rs) = {} THEN none
       ELSE LET s == CHOOSE k \in LastBefore(m, rs) : TRUE
                e == m[s][1]
                v == m[s][2]
                c == Coalesce(v, value)
            IN IF rs <= e /\ c # <<>>
               THEN [map |-> Put(m, s, <<e, c[1]>>), to_insert |-> <<>>,
                     start_cursor |-> s]
               ELSE IF rs < e
               THEN LET tail == IF re < e THEN << <<re, <<e, v>>>> >> ELSE <<>>
                        next_end == MinOf(e, re)
                    IN [map |-> m,
                        to_insert |-> Append(tail,
                             <<rs, <<next_end, Merge(merge, v, value)>>>>),
                        start_cursor |-> next_end]
               ELSE none

\* Lines 84-105: the entry with the greatest start < range.start.
\* The result carries the map (mutated in place), to_insert and start_cursor.
LeftStep(m, rs, re, value, merge) ==
    LET none == [map |-> m, to_insert |-> <<>>, start_cursor |-> rs]
    IN IF LastBefore(m, rs) = {} THEN none
       ELSE LET s == CHOOSE k \in LastBefore(m, rs) : TRUE
                e == m[s][1]
                v == m[s][2]
                c == Coalesce(v, value)
            IN IF rs = e
               THEN IF c # <<>>
                    THEN [map |-> Put(m, s, <<e, c[1]>>), to_insert |-> <<>>,
                          start_cursor |-> s]
                    ELSE none
               ELSE IF rs < e
               THEN IF c # <<>>
                    THEN [map |-> Put(m, s, <<e, c[1]>>), to_insert |-> <<>>,
                          start_cursor |-> s]
                    ELSE LET tail == IF re < e THEN << <<re, <<e, v>>>> >> ELSE <<>>
                             next_end == MinOf(e, re)
                         IN [map |-> Put(m, s, <<rs, v>>),
                             to_insert |-> Append(tail,
                                  <<rs, <<next_end, Merge(merge, v, value)>>>>),
                             start_cursor |-> next_end]
               ELSE none

\* Lines 109-133: one iteration of the sweep, for the entry that starts at s.
MiddleStep(st, s, re, value, merge) ==
    LET e == st.map[s][1]
        v == st.map[s][2]
        c == Coalesce(v, st.coalesced_value)
    IN IF c # <<>>
       THEN [st EXCEPT !.coalesced_value = c[1], !.to_remove = Append(@, s)]
       ELSE LET gap  == st.start_cursor < s
                ins1 == IF gap
                        THEN Append(st.to_insert,
                                    <<st.start_cursor, <<s, st.coalesced_value>>>>)
                        ELSE st.to_insert
                cv   == IF gap THEN value ELSE st.coalesced_value
            IN IF e <= re
               THEN [map |-> Put(st.map, s, <<e, Merge(merge, v, cv)>>),
                     to_insert |-> ins1, to_remove |-> st.to_remove,
                     start_cursor |-> e, coalesced_value |-> cv]
               ELSE [map |-> Put(st.map, s, <<re, Merge(merge, v, cv)>>),
                     to_insert |-> Append(ins1, <<re, <<e, v>>>>),
                     to_remove |-> st.to_remove,
                     start_cursor |-> re, coalesced_value |-> cv]

RECURSIVE MiddleLoop(_, _, _, _, _)
MiddleLoop(st, keys, re, value, merge) ==
    IF keys = <<>> THEN st
    ELSE MiddleLoop(MiddleStep(st, Head(keys), re, value, merge),
                    Tail(keys), re, value, merge)

\* The sweep without the piece after the last stored entry.
RightTail_Missing(st, re) == st.to_insert

\* Lines 135-137: the piece from the cursor to range.end.
RightTail(st, re) ==
    IF st.start_cursor < re
    THEN Append(st.to_insert, <<st.start_cursor, <<re, st.coalesced_value>>>>)
    ELSE st.to_insert

\* BTreeMap::range / range_mut over start..end panics when start > end and
\* the tree has a root; a map that never held an entry has none and yields
\* an empty iterator.
RangePanics(m, start, end) == start > end /\ DOMAIN m # {}

\* RangeMap::insert_with(rs..re, value, merge).  The result is the map and
\* whether the call panicked: range_mut(rs..re) on line 109 panics after the
\* left entry has been mutated in place.
InsertWith(m, rs, re, value, merge) ==
    LET l == LeftStep(m, rs, re, value, merge)
    IN IF RangePanics(l.map, rs, re)
       THEN [map |-> l.map, panicked |-> TRUE]
       ELSE LET st0 == [map |-> l.map, to_insert |-> l.to_insert,
                        to_remove |-> <<>>, start_cursor |-> l.start_cursor,
                        coalesced_value |-> value]
                keys == SortedSeq({s \in DOMAIN m : rs <= s /\ s < re})
                st1  == MiddleLoop(st0, keys, re, value, merge)
                m2   == PutAll(RemoveAll(st1.map, st1.to_remove),
                               RightTail(st1, re))
            IN CoalesceInRange(m2, rs, re)

\* RangeMap::insert_replace.
InsertReplace(m, rs, re, value) == InsertWith(m, rs, re, value, "replace")

\* ------------------------------------------------------ the state machine
\* ------------------------------------------------------ reading progress
\* A miniature of bible_structure.json: per testament, the books in order
\* with the number of verses of each chapter.
BibleOT == <<[name |-> "Genesis", chapters |-> <<2, 1>>],
             [name |-> "Exodus", chapters |-> <<1>>]>>
BibleNT == <<>>
AllBooks == BibleOT \o BibleNT
BookNames == {AllBooks[i].name : i \in DOMAIN AllBooks}
ChaptersOf(book) ==
    AllBooks[CHOOSE i \in DOMAIN AllBooks : AllBooks[i].name = book].chapters
\* The longest chapter.
MaxVerse == Max(UNION {{AllBooks[i].chapters[c] :
                          c \in DOMAIN AllBooks[i].chapters} :
                       i \in DOMAIN AllBooks})
Days == 1 .. MaxDay

\* InsideBookBibleReference {chapter, verse} with the derived lexicographic
\* order, as one integer: Stride exceeds every verse number and exclusive end.
Stride == MaxVerse + 2
Ref(chapter, verse) == chapter * Stride + verse
ChapterOf(k) == k \div Stride
VerseOf(k) == k % Stride

ReadingRecord(count, date) == [read_count |-> count, last_read |-> date]
\* ReadingRecord::default().
DefaultRecord(now) == ReadingRecord(1, now)
\* Option<NaiveDate>: <<>> is None, <<d>> is Some(d).
UnwrapOrToday(date, now) == IF date = <<>> THEN now ELSE date[1]

\* self.books.entry(book).or_insert_with(RangeMap::new).
Entry(bs, book) == IF book \in DOMAIN bs THEN bs[book] ELSE EmptyMap
PutBook(bs, book, m) ==
    [b \in DOMAIN bs \cup {book} |-> IF b = book THEN m ELSE bs[b]]

\* mark_read with the new record replacing the old one instead of adding to its
\* read count.
MarkRead_Replace(bs, book, chapter, verse, now) ==
    LET r == InsertWith(Entry(bs, book), Ref(chapter, verse),
                        Ref(chapter, verse + 1), DefaultRecord(now),
                        "replace")
    IN [books |-> PutBook(bs, book, r.map), panicked |-> r.panicked]

\* ReadingProgress::mark_read.
MarkRead(bs, book, chapter, verse, now) ==
    LET r == InsertWith(Entry(bs, book), Ref(chapter, verse),
                        Ref(chapter, verse + 1), DefaultRecord(now),
                        "mark_read")
    IN [books |-> PutBook(bs, book, r.map), panicked |-> r.panicked]

\* ReadingProgress::set_read_count: the range handed over is
\* reference..reference.
SetReadCount(bs, book, chapter, verse, count, date, now) ==
    LET r == InsertReplace(Entry(bs, book), Ref(chapter, verse),
                           Ref(chapter, verse),
                           ReadingRecord(count, UnwrapOrToday(date, now)))
    IN [books |-> PutBook(bs, book, r.map), panicked |-> r.panicked]

\* ReadingProgress::mark_read_overwrite.
MarkReadOverwrite(bs, book, chapter, verse, count, date, now) ==
    LET r == InsertReplace(Entry(bs, book), Ref(chapter, verse),
                           Ref(chapter, verse + 1),
                           ReadingRecord(count, UnwrapOrToday(date, now)))
    IN [books |-> PutBook(bs, book, r.map), panicked |-> r.panicked]

\* The records of one book that cover a verse.
RecordsAt(bs, book, chapter, verse) ==
    LET m == Entry(bs, book)
    IN {m[s][2] : s \in {k \in DOMAIN m : k <= Ref(chapter, verse)
                                           /\ Ref(chapter, verse) < m[k][1]}}

\* ------------------------------------------------- statistics and colours
\* progress.books.get(book): <<>> is None, <<m>> is Some(m).
BookRecords(bs, book) == IF book \in DOMAIN bs THEN <<bs[book]>> ELSE <<>>

\* get_verse_read_counts with the first verse of every yielded range left
\* out of the loop over range.start.verse..range.end.verse.
GetVerseReadCounts_OpenStart(chapter, max_verse, m) ==
    LET entries == RangeQuery(m, Ref(chapter, 1), Ref(chapter, max_verse + 1))
        same == {i \in DOMAIN entries :
                    /\ ChapterOf(entries[i][1]) = chapter
                    /\ ChapterOf(entries[i][2]) = chapter}
        covering(v) == {entries[i][3].read_count :
                          i \in {j \in same : /\ VerseOf(entries[j][1]) < v
                                              /\ v < VerseOf(entries[j][2])}}
        verses == {v \in 0 .. (Stride - 1) : \E c \in covering(v) : c > 0}
    IN [v \in verses |-> Max(covering(v))]

\* get_verse_read_counts: the HashMap from verse to the greatest read count
\* of the yielded ranges that lie in the chapter and cover the verse; a
\* verse is entered only by a read count above 0.
GetVerseReadCounts(chapter, max_verse, m) ==
    LET entries == RangeQuery(m, Ref(chapter, 1), Ref(chapter, max_verse + 1))
        same == {i \in DOMAIN entries :
                    /\ ChapterOf(entries[i][1]) = chapter
                    /\ ChapterOf(entries[i][2]) = chapter}
        covering(v) == {entries[i][3].read_count :
                          i \in {j \in same : /\ VerseOf(entries[j][1]) <= v
                                              /\ v < VerseOf(entries[j][2])}}
        verses == {v \in 0 .. (Stride - 1) : \E c \in covering(v) : c > 0}
    IN [v \in verses |-> Max(covering(v))]
\* verse_read_counts.get(&verse).copied().unwrap_or(0).
GetCount(verse_read_counts, verse) ==
    IF verse \in DOMAIN verse_read_counts THEN verse_read_counts[verse] ELSE 0

\* calculate_chapter_read_stats counting the verses with a read count of at
\* least the minimum.
CalculateChapterReadStats_AtLeast(chapter, max_verse, book_records) ==
    IF book_records = <<>> THEN <<0, 0, 0>>
    ELSE LET counts == GetVerseReadCounts(chapter, max_verse, book_records[1])
             all == {GetCount(counts, v) : v \in 1 .. max_verse}
         IN IF all = {} THEN <<0, 0, 0>>
            ELSE <<Min(all),
                   Cardinality({v \in 1 .. max_verse :
                                   GetCount(counts, v) >= Min(all)}),
                   max_verse>>

\* calculate_chapter_read_stats: (min_read_count, verses_read_more,
\* total_verses).  min_read_count stays u32::MAX only when the loop over
\* 1..=max_verse has no verse.
CalculateChapterReadStats(chapter, max_verse, book_records) ==
    IF book_records = <<>> THEN <<0, 0, 0>>
    ELSE LET counts == GetVerseReadCounts(chapter, max_verse, book_records[1])
             all == {GetCount(counts, v) : v \in 1 .. max_verse}
         IN IF all = {} THEN <<0, 0, 0>>
            ELSE <<Min(all),
                   Cardinality({v \in 1 .. max_verse :
                                   GetCount(counts, v) > Min(all)}),
                   max_verse>>

\* The (chapter, verse) pairs the loops over chapters and 1..=max_verse visit.
AllVerses(chapters) ==
    {<<c, v>> \in (1 .. Len(chapters)) \X (1 .. MaxVerse) : v <= chapters[c]}
\* The read count pushed to all_verse_read_counts for a verse.
PushedCount(chapters, m, cv) ==
    GetCount(GetVerseReadCounts(cv[1], chapters[cv[1]], m), cv[2])

\* calculate_book_read_stats.
CalculateBookReadStats(chapters, book_records) ==
    IF book_records = <<>> THEN <<0, 0, 0>>
    ELSE LET verses == AllVerses(chapters)
             count(cv) == PushedCount(chapters, book_records[1], cv)
             min_read_count == Min({count(cv) : cv \in verses})
         IN IF verses = {} THEN <<0, 0, 0>>
            ELSE <<min_read_count,
                   Cardinality({cv \in verses : count(cv) > min_read_count}),
                   Cardinality(verses)>>

\* calculate_testament_min_read_count: only the books with an entry in the
\* progress contribute.
CalculateTestamentMinReadCount(testament_books, bs) ==
    LET all == UNION {{PushedCount(testament_books[i].chapters,
                                   bs[testament_books[i].name], cv) :
                          cv \in AllVerses(testament_books[i].chapters)} :
                      i \in {j \in DOMAIN testament_books :
                                testament_books[j].name \in DOMAIN bs}}
    IN IF all = {} THEN 0 ELSE Min(all)

\* determine_chapter_color with the green test before the white test.
DetermineChapterColor_GreenFirst(chapter_min, book_min, verse_read_counts, max_verse) ==
    IF \E verse \in 1 .. max_verse :
          GetCount(verse_read_counts, verse) >= book_min + 1
    THEN "green"
    ELSE IF chapter_min = book_min THEN "white"
    ELSE "yellow"

\* determine_chapter_color.
DetermineChapterColor(chapter_min, book_min, verse_read_counts, max_verse) ==
    IF chapter_min = book_min THEN "white"
    ELSE IF \E verse \in 1 .. max_verse :
               GetCount(verse_read_counts, verse) >= book_min + 1
    THEN "green"
    ELSE "yellow"

\* The colour build_chapter_items gives a chapter.
ChapterStyle(chapter, max_verse, book_records, book_min_read_count) ==
    DetermineChapterColor(
        CalculateChapterReadStats(chapter, max_verse, book_records)[1],
        book_min_read_count,
        IF book_records = <<>> THEN <<>>
        ELSE GetVerseReadCounts(chapter, max_verse, book_records[1]),
        max_verse)
\* build_chapter_items: chapter_colors, is_green for each chapter in order.
ChapterColors(chapters, book_records, book_min_read_count) ==
    [c \in 1 .. Len(chapters) |->
        ChapterStyle(c, chapters[c], book_records, book_min_read_count)
           = "green"]

\* determine_book_color_from_children without the fall-back comparison.
DetermineBookColorFromChildren_NoFallback(book_min, testament_min, chapters, book_records, chapter_colors) ==
    LET green_count == Cardinality({c \in DOMAIN chapter_colors :
                                       chapter_colors[c]})
        total_chapters == Len(chapter_colors)
    IN IF total_chapters > 0 /\ green_count = total_chapters THEN "green"
       ELSE IF total_chapters > 0 /\ green_count > 0 THEN "yellow"
       ELSE "white"

\* determine_book_color_from_children.
DetermineBookColorFromChildren(book_min, testament_min, chapters, book_records, chapter_colors) ==
    LET green_count == Cardinality({c \in DOMAIN chapter_colors :
                                       chapter_colors[c]})
        total_chapters == Len(chapter_colors)
        all == IF book_records = <<>> THEN {}
               ELSE {PushedCount(chapters, book_records[1], cv) :
                        cv \in AllVerses(chapters)}
    IN IF total_chapters > 0 /\ green_count = total_chapters THEN "green"
       ELSE IF total_chapters > 0 /\ green_count > 0 THEN "yellow"
       ELSE IF book_min = testament_min THEN "white"
       ELSE IF \E count \in all : count >= testament_min + 1
       THEN "green"
       ELSE "yellow"

\* build_dashboard_tree_items: the chapter_colors of a book.
BookChapterColors(bs, book) ==
    ChapterColors(ChaptersOf(book), BookRecords(bs, book),
                  CalculateBookReadStats(ChaptersOf(book),
                                         BookRecords(bs, book))[1])
\* build_dashboard_tree_items and build_book_label: the colour of a book of
\* the testament.
BookStyle(testament_books, bs, book) ==
    DetermineBookColorFromChildren(
        CalculateBookReadStats(ChaptersOf(book), BookRecords(bs, book))[1],
        CalculateTestamentMinReadCount(testament_books, bs),
        ChaptersOf(book), BookRecords(bs, book), BookChapterColors(bs, book))

\* ------------------------------------------------------------ input text
\* The text of an input field is the sequence of its characters.
DigitChars == <<"0", "1", "2", "3", "4", "5", "6", "7", "8", "9">>
IsDigit(ch) == \E i \in DOMAIN DigitChars : DigitChars[i] = ch
DigitVal(ch) == (CHOOSE i \in DOMAIN DigitChars : DigitChars[i] = ch) - 1
\* The decimal text of a one-digit number.
NumText(n) == <<DigitChars[n + 1]>>

Contains(t, ch) == \E i \in DOMAIN t : t[i] = ch

RECURSIVE TrimStart(_)
TrimStart(t) == IF t # <<>> /\ Head(t) = " " THEN TrimStart(Tail(t)) ELSE t
RECURSIVE TrimEnd(_)
TrimEnd(t) == IF t # <<>> /\ t[Len(t)] = " "
              THEN TrimEnd(SubSeq(t, 1, Len(t) - 1)) ELSE t
\* str::trim.
Trim(t) == TrimEnd(TrimStart(t))

RECURSIVE Split(_, _)
\* str::split(ch): the pieces between the separators, at least one piece.
Split(t, ch) ==
    IF ~Contains(t, ch) THEN <<t>>
    ELSE LET i == Min({j \in DOMAIN t : t[j] = ch})
         IN <<SubSeq(t, 1, i - 1)>> \o Split(SubSeq(t, i + 1, Len(t)), ch)

RECURSIVE DigitsValue(_)
DigitsValue(t) == IF t = <<>> THEN 0
                  ELSE DigitsValue(SubSeq(t, 1, Len(t) - 1)) * 10
                       + DigitVal(t[Len(t)])
\* str::parse::<u32>: <<n>> for Ok(n), <<>> for Err.  An optional plus sign,
\* then one or more digits; the texts here are too short to overflow.
ParseU32(t) ==
    LET digits == IF t # <<>> /\ Head(t) = "+" THEN Tail(t) ELSE t
    IN IF digits = <<>> \/ \E i \in DOMAIN digits : ~IsDigit(digits[i])
       THEN <<>>
       ELSE <<DigitsValue(digits)>>

\* One comma-separated part of parse_verse_ranges: <<<<start, end>>>> when it
\* is accepted, <<>> when it is rejected.
ParsePart(piece, max_verse) ==
    LET part == Trim(piece)
    IN IF Contains(part, "-")
       THEN LET parts == Split(part, "-")
                start == ParseU32(Trim(parts[1]))
                end == ParseU32(Trim(parts[2]))
            IN IF Len(parts) # 2 THEN <<>>
               ELSE IF start = <<>> \/ end = <<>> THEN <<>>
               ELSE IF start[1] > end[1] \/ end[1] > max_verse THEN <<>>
               ELSE <<<<start[1], end[1]>>>>
       ELSE LET verse == ParseU32(part)
            IN IF verse = <<>> THEN <<>>
               ELSE IF verse[1] > max_verse THEN <<>>
               ELSE <<<<verse[1], verse[1]>>>>

\* utils::parse_verse_ranges.
ParseVerseRanges(input, max_verse) ==
    LET t == Trim(input)
        pieces == Split(t, ",")
        parsed == [i \in DOMAIN pieces |-> ParsePart(pieces[i], max_verse)]
    IN IF t = <<>> THEN [ok |-> TRUE, ranges |-> <<<<1, max_verse>>>>]
       ELSE IF \E i \in DOMAIN parsed : parsed[i] = <<>>
       THEN [ok |-> FALSE, ranges |-> <<>>]
       ELSE [ok |-> TRUE, ranges |-> [i \in DOMAIN parsed |-> parsed[i][1]]]

RECURSIVE VersesOfRanges(_)
\* The verses the two nested loops of add_reading visit, in order.
VersesOfRanges(ranges) ==
    IF ranges = <<>> THEN <<>>
    ELSE LET r == Head(ranges)
         IN [i \in 1 .. (r[2] - r[1] + 1) |-> r[1] + i - 1]
            \o VersesOfRanges(Tail(ranges))

RECURSIVE MarkEach(_, _, _, _, _)
\* progress.mark_read for each verse in turn; a panic ends the loop.
MarkEach(st, book, chapter, verses, now) ==
    IF verses = <<>> \/ st.panicked THEN st
    ELSE CHOOSE r \in
            {MarkEach(next, book, chapter, Tail(verses), now) :
                next \in {MarkRead(st.books, book, chapter, Head(verses),
                                   now)}} : TRUE

\* RecordWidget::add_reading on the fields f.  The singleton sets bind each
\* intermediate result (chapter, verse_ranges, the progress after the loop)
\* once.
RecordAddReading(bs, f, now) ==
    LET err == [ok |-> FALSE, books |-> bs, panicked |-> FALSE,
                ranges |-> <<>>]
    IN IF f.book = "" THEN err
       ELSE CHOOSE res \in
          {IF chapter = <<>> THEN err
           ELSE IF chapter[1] = 0 \/ chapter[1] > Len(ChaptersOf(f.book))
           THEN err
           ELSE CHOOSE res2 \in
              {IF ~verse_ranges.ok THEN err
               ELSE CHOOSE res3 \in
                  {[ok |-> TRUE, books |-> st.books,
                    panicked |-> st.panicked,
                    ranges |-> verse_ranges.ranges] :
                     st \in {MarkEach([books |-> bs, panicked |-> FALSE],
                                      f.book, chapter[1], verses, now) :
                                verses \in
                                  {VersesOfRanges(verse_ranges.ranges)}}}
                  : TRUE :
                 verse_ranges \in
                   {IF Trim(f.verse_input) = <<>>
                    THEN [ok |-> TRUE,
                          ranges |-> <<<<1, ChaptersOf(f.book)[chapter[1]]>>>>]
                    ELSE ParseVerseRanges(f.verse_input,
                                          ChaptersOf(f.book)[chapter[1]])}}
              : TRUE :
             chapter \in {ParseU32(Trim(f.chapter_input))}}
          : TRUE

\* The text of day d: the days of the model are the first days of one month.
DateText(d) == <<"2", "0", "2", "6", "-", "0", "1", "-", "0">> \o NumText(d)
\* NaiveDate::parse_from_str(text, "%Y-%m-%d"): <<d>> for Ok, <<>> for Err.
ParseDate(t) ==
    LET parts == Split(t, "-")
        year == ParseU32(parts[1])
        month == ParseU32(parts[2])
        day == ParseU32(parts[3])
    IN IF Len(parts) # 3 THEN <<>>
       ELSE IF year = <<>> \/ month = <<>> \/ day = <<>> THEN <<>>
       ELSE IF year[1] # 2026 \/ month[1] # 1 THEN <<>>
       ELSE IF day[1] < 1 \/ day[1] > 31 THEN <<>>
       ELSE day

RECURSIVE OverwriteEach(_, _, _, _, _, _, _)
\* progress.mark_read_overwrite for each verse in turn; a panic ends the loop.
OverwriteEach(st, book, chapter, verses, count, date, now) ==
    IF verses = <<>> \/ st.panicked THEN st
    ELSE CHOOSE r \in
            {OverwriteEach([st EXCEPT !.books = next.books,
                                      !.panicked = next.panicked],
                           book, chapter, Tail(verses), count, date, now) :
                next \in {MarkReadOverwrite(st.books, book, chapter,
                                            Head(verses), count, date, now)}}
            : TRUE

RECURSIVE OverwriteBook(_, _, _, _, _, _)
\* The empty chapter field: every verse of every chapter from chapter on.
OverwriteBook(st, book, chapter, count, date, now) ==
    IF chapter > Len(ChaptersOf(book)) \/ st.panicked THEN st
    ELSE CHOOSE r \in
            {OverwriteBook(next, book, chapter + 1, count, date, now) :
                next \in {OverwriteEach(st, book, chapter,
                                        [v \in 1 .. ChaptersOf(book)[chapter]
                                            |-> v],
                                        count, date, now)}}
            : TRUE

\* The chapter field of the manual form: <<start, end>> when it is accepted,
\* <<>> when it is rejected.
ParseChapters(chapter_str, nchapters) ==
    IF Contains(chapter_str, "-")
    THEN LET parts == Split(chapter_str, "-")
             start == ParseU32(Trim(parts[1]))
             end == ParseU32(Trim(parts[2]))
         IN IF Len(parts) # 2 THEN <<>>
            ELSE IF start = <<>> \/ end = <<>> THEN <<>>
            ELSE IF start[1] = 0 \/ start[1] > nchapters THEN <<>>
            ELSE IF end[1] = 0 \/ end[1] > nchapters THEN <<>>
            ELSE IF start[1] > end[1] THEN <<>>
            ELSE <<start[1], end[1]>>
    ELSE LET chapter == ParseU32(Trim(chapter_str))
         IN IF chapter = <<>> THEN <<>>
            ELSE IF chapter[1] = 0 \/ chapter[1] > nchapters THEN <<>>
            ELSE <<chapter[1], chapter[1]>>

RECURSIVE ManualChapters(_, _, _, _, _, _, _, _)
\* The loop over chapter_start..=chapter_end of the manual form, from chapter
\* on: the verse field of the chapter is parsed when its turn comes, after the
\* earlier chapters have been written.
ManualChapters(st, f, chapter, chapter_start, chapter_end, count, date, now) ==
    IF chapter > chapter_end \/ ~st.ok \/ st.panicked THEN st
    ELSE CHOOSE r \in
       {IF ~verse_ranges.ok THEN [st EXCEPT !.ok = FALSE]
        ELSE CHOOSE r2 \in
           {ManualChapters(next, f, chapter + 1, chapter_start, chapter_end,
                           count, date, now) :
               next \in {OverwriteEach(st, f.book, chapter, verses, count,
                                       date, now) :
                           verses \in {VersesOfRanges(verse_ranges.ranges)}}}
           : TRUE :
          verse_ranges \in
            {LET verse_input ==
                     IF chapter = chapter_start THEN f.verse_input
                     ELSE IF chapter = chapter_end
                             /\ chapter_start # chapter_end
                     THEN f.verse_end_input
                     ELSE <<>>
                 max_verse == ChaptersOf(f.book)[chapter]
             IN IF Trim(verse_input) = <<>>
                THEN [ok |-> TRUE, ranges |-> <<<<1, max_verse>>>>]
                ELSE ParseVerseRanges(verse_input, max_verse)}}
       : TRUE

\* ManualAddWidget::add_reading on the fields f: ok is FALSE for Err, books is
\* the progress the call leaves.
ManualAddReading(bs, f, now) ==
    LET err == [ok |-> FALSE, books |-> bs, panicked |-> FALSE]
        start == [ok |-> TRUE, books |-> bs, panicked |-> FALSE]
    IN IF f.book = "" THEN err
       ELSE CHOOSE res \in
          {IF read_count = <<>> THEN err
           ELSE IF ~last_read.ok THEN err
           ELSE IF Trim(f.chapter_input) = <<>>
           THEN OverwriteBook(start, f.book, 1, read_count[1],
                              last_read.date, now)
           ELSE IF chapters = <<>> THEN err
           ELSE ManualChapters(start, f, chapters[1], chapters[1],
                               chapters[2], read_count[1], last_read.date,
                               now) :
             read_count \in {IF Trim(f.read_count_input) = <<>> THEN <<1>>
                             ELSE ParseU32(Trim(f.read_count_input))},
             last_read \in {IF Trim(f.date_input) = <<>>
                            THEN [ok |-> TRUE, date |-> <<>>]
                            ELSE [ok |-> ParseDate(Trim(f.date_input)) # <<>>,
                                  date |-> ParseDate(Trim(f.date_input))]},
             chapters \in {ParseChapters(f.chapter_input,
                                         Len(ChaptersOf(f.book)))}}
          : TRUE

\* --------------------------------------------------------------- key events
\* The characters a typed key can carry: a digit and a letter.
KeyChars == {"1", "x"}
\* The key codes handle_key tells apart; "Other" is any other key.
KeyCodes ==
    {"Esc", "Tab", "BackTab", "Up", "Down", "Enter", "Backspace", "Char",
     "Other"}
\* The key events: a typed character, or a key without one.
KeyEvents ==
    {<<code, "">> : code \in KeyCodes \ {"Char"}}
    \cup {<<"Char", c>> : c \in KeyChars}
\* The name of a book as text.
NameText(book) ==
    IF book = "Genesis" THEN <<"G", "e", "n", "e", "s", "i", "s">>
    ELSE <<"E", "x", "o", "d", "u", "s">>
RECURSIVE IsSubsequence(_, _)
IsSubsequence(pattern, t) ==
    IF pattern = <<>> THEN TRUE
    ELSE IF t = <<>> THEN FALSE
    ELSE IF Head(pattern) = Head(t) THEN IsSubsequence(Tail(pattern), Tail(t))
    ELSE IsSubsequence(pattern, Tail(t))
\* SkimMatcherV2::default().fuzzy_match(choice, pattern).is_some(): the
\* characters of the pattern occur in the choice in order; the case is
\* ignored unless the pattern has an upper-case letter.
FuzzyMatches(choice, pattern) ==
    LET lower(ch) == IF ch = "G" THEN "g" ELSE IF ch = "E" THEN "e" ELSE ch
    IN IF \E i \in DOMAIN pattern : pattern[i] \in {"G", "E"}
       THEN IsSubsequence(pattern, choice)
       ELSE IsSubsequence(pattern, [i \in DOMAIN choice |-> lower(choice[i])])
\* get_all_books: the books of the Old Testament, then of the New.
GetAllBooks == [i \in DOMAIN AllBooks |-> AllBooks[i].name]
\* compute_book_matches: all books for an empty query, else the books the
\* query matches, highest score first; the scores are not modelled, so every
\* order of the matching books is an outcome.
ComputeBookMatches(search_query) ==
    LET scored == {b \in BookNames : FuzzyMatches(NameText(b), search_query)}
    IN IF search_query = <<>> THEN {GetAllBooks}
       ELSE {s \in [1 .. Cardinality(scored) -> scored] :
                \A i \in DOMAIN s, j \in DOMAIN s : i # j => s[i] # s[j]}

\* RecordWidget::new and ManualAddWidget::new; a RecordWidget has neither
\* verse_end_input, read_count_input, date_input nor show_confirmation, which
\* keep these values.  selected_book_index counts from 0.
NewWidget(kind) ==
    [kind |-> kind, book_search |-> <<>>, book_matches |-> GetAllBooks,
     selected_book_index |-> 0, chapter_input |-> <<>>, verse_input |-> <<>>,
     verse_end_input |-> <<>>, read_count_input |-> <<>>,
     date_input |-> <<>>, error_message |-> FALSE, input_focus |-> "Book",
     show_confirmation |-> FALSE]
\* AppMode::Dashboard: the tree of the dashboard is computed from the
\* progress and has none of the fields of the forms.
Dashboard ==
    [NewWidget("Dashboard") EXCEPT !.book_matches = <<>>,
                                   !.input_focus = "None"]

\* What handle_key leaves: the widget and the action it returns, "Panic" for
\* an index out of bounds.
Outcome(w, action) == [w |-> w, action |-> action]
\* String::pop.
PopChar(t) == IF t = <<>> THEN t ELSE SubSeq(t, 1, Len(t) - 1)
ClearError(w) == [w EXCEPT !.error_message = FALSE]

\* KeyCode::Up and KeyCode::Down in the Book field.
MoveUp(w) ==
    [w EXCEPT !.selected_book_index = IF @ > 0 THEN @ - 1 ELSE @]
MoveDown(w) ==
    [w EXCEPT !.selected_book_index =
                 IF @ < Max({Len(w.book_matches) - 1, 0}) THEN @ + 1 ELSE @]
\* KeyCode::Enter in the Book field: the selected book becomes the query and
\* book_matches is computed again; selected_book_index is left as it is.
SelectBook(w) ==
    IF w.book_matches = <<>> THEN {Outcome(w, "None")}
    ELSE IF w.selected_book_index >= Len(w.book_matches)
    THEN {Outcome(w, "Panic")}
    ELSE {Outcome([w EXCEPT !.book_search = query,
                            !.input_focus = "Chapter",
                            !.book_matches = new_matches], "None") :
             <<query, new_matches>> \in
                UNION {{<<q, m>> : m \in ComputeBookMatches(q)} :
                          q \in {NameText(
                                   w.book_matches[w.selected_book_index + 1])}}}
\* A change of book_search by Backspace or by a typed character.
SearchBook(w, search_query) ==
    {Outcome([w EXCEPT !.book_search = search_query,
                       !.selected_book_index = 0,
                       !.book_matches = new_matches,
                       !.error_message = FALSE], "None") :
        new_matches \in ComputeBookMatches(search_query)}

\* RecordWidget::handle_key.
RecordHandleKey(w, code, c) ==
    IF code = "Esc" THEN {Outcome(w, "Cancel")}
    ELSE IF code = "Tab"
    THEN {Outcome(ClearError([w EXCEPT !.input_focus =
                     IF @ = "Book" THEN "Chapter"
                     ELSE IF @ = "Chapter" THEN "Verse" ELSE "Book"]),
                  "None")}
    ELSE IF code = "BackTab"
    THEN {Outcome(ClearError([w EXCEPT !.input_focus =
                     IF @ = "Book" THEN "Verse"
                     ELSE IF @ = "Chapter" THEN "Book" ELSE "Chapter"]),
                  "None")}
    ELSE IF code = "Up" /\ w.input_focus = "Book"
    THEN {Outcome(MoveUp(w), "None")}
    ELSE IF code = "Down" /\ w.input_focus = "Book"
    THEN {Outcome(MoveDown(w), "None")}
    ELSE IF code = "Enter"
    THEN IF w.input_focus = "Book" THEN SelectBook(w)
         ELSE IF w.input_focus = "Chapter"
         THEN {Outcome([w EXCEPT !.input_focus = "Verse"], "None")}
         ELSE IF w.book_matches = <<>>
         THEN {Outcome([w EXCEPT !.error_message = TRUE], "None")}
         ELSE {Outcome(w, "AddReading")}
    ELSE IF code = "Backspace"
    THEN IF w.input_focus = "Book"
         THEN SearchBook(w, PopChar(w.book_search))
         ELSE IF w.input_focus = "Chapter"
         THEN {Outcome(ClearError([w EXCEPT !.chapter_input = PopChar(@)]),
                       "None")}
         ELSE {Outcome(ClearError([w EXCEPT !.verse_input = PopChar(@)]),
                       "None")}
    ELSE IF code = "Char"
    THEN IF w.input_focus = "Book"
         THEN SearchBook(w, Append(w.book_search, c))
         ELSE IF w.input_focus = "Chapter"
         THEN {Outcome(ClearError([w EXCEPT !.chapter_input =
                          IF IsDigit(c) THEN Append(@, c) ELSE @]), "None")}
         ELSE {Outcome(ClearError([w EXCEPT !.verse_input =
                          IF IsDigit(c) \/ c = "-" \/ c = ","
                          THEN Append(@, c) ELSE @]), "None")}
    ELSE {Outcome(w, "None")}

\* The next and the previous field of the manual form.
ManualNextFocus(w) ==
    IF w.input_focus = "Book" THEN "Chapter"
    ELSE IF w.input_focus = "Chapter" THEN "Verse"
    ELSE IF w.input_focus = "Verse"
    THEN IF Contains(w.chapter_input, "-") THEN "VerseEnd" ELSE "ReadCount"
    ELSE IF w.input_focus = "VerseEnd" THEN "ReadCount"
    ELSE IF w.input_focus = "ReadCount" THEN "Date"
    ELSE "Book"
ManualPrevFocus(w) ==
    IF w.input_focus = "Book" THEN "Date"
    ELSE IF w.input_focus = "Chapter" THEN "Book"
    ELSE IF w.input_focus = "Verse" THEN "Chapter"
    ELSE IF w.input_focus = "VerseEnd" THEN "Verse"
    ELSE IF w.input_focus = "ReadCount"
    THEN IF Contains(w.chapter_input, "-") THEN "VerseEnd" ELSE "Verse"
    ELSE "ReadCount"
\* The text field the focus is on, Backspace and a typed character in it.
FocusField(w) ==
    IF w.input_focus = "Book" THEN "book_search"
    ELSE IF w.input_focus = "Chapter" THEN "chapter_input"
    ELSE IF w.input_focus = "Verse" THEN "verse_input"
    ELSE IF w.input_focus = "VerseEnd" THEN "verse_end_input"
    ELSE IF w.input_focus = "ReadCount" THEN "read_count_input"
    ELSE "date_input"
ManualAccepts(w, c) ==
    IF w.input_focus = "Chapter" \/ w.input_focus = "Date"
    THEN IsDigit(c) \/ c = "-"
    ELSE IF w.input_focus = "ReadCount" THEN IsDigit(c)
    ELSE IsDigit(c) \/ c = "-" \/ c = ","

\* The Enter key of the manual form outside the confirmation popup.
ManualEnter(w) ==
    IF w.input_focus = "Book" THEN SelectBook(w)
    ELSE IF w.input_focus \in {"Chapter", "Verse", "VerseEnd", "ReadCount"}
    THEN {Outcome([w EXCEPT !.input_focus =
                      IF @ = "Chapter" THEN "Verse"
                      ELSE IF @ = "Verse"
                      THEN IF Contains(w.chapter_input, "-")
                           THEN "VerseEnd" ELSE "ReadCount"
                      ELSE IF @ = "VerseEnd" THEN "ReadCount"
                      ELSE "Date"], "None")}
    ELSE IF Trim(w.chapter_input) = <<>>
    THEN {Outcome([w EXCEPT !.show_confirmation = TRUE], "None")}
    ELSE IF w.book_matches = <<>>
    THEN {Outcome([w EXCEPT !.error_message = TRUE], "None")}
    ELSE {Outcome(w, "AddReading")}
\* The keys of the manual form outside the confirmation popup.
ManualFormKey(w, code, c) ==
    IF code = "Esc" THEN {Outcome(w, "Cancel")}
    ELSE IF code = "Tab"
    THEN {Outcome(ClearError([w EXCEPT !.input_focus = ManualNextFocus(w)]),
                  "None")}
    ELSE IF code = "BackTab"
    THEN {Outcome(ClearError([w EXCEPT !.input_focus = ManualPrevFocus(w)]),
                  "None")}
    ELSE IF code = "Up" /\ w.input_focus = "Book"
    THEN {Outcome(MoveUp(w), "None")}
    ELSE IF code = "Down" /\ w.input_focus = "Book"
    THEN {Outcome(MoveDown(w), "None")}
    ELSE IF code = "Enter" THEN ManualEnter(w)
    ELSE IF code = "Backspace"
    THEN IF w.input_focus = "Book"
         THEN SearchBook(w, PopChar(w.book_search))
         ELSE {Outcome(ClearError([w EXCEPT ![FocusField(w)] = PopChar(@)]),
                       "None")}
    ELSE IF code = "Char"
    THEN IF w.input_focus = "Book"
         THEN SearchBook(w, Append(w.book_search, c))
         ELSE {Outcome(ClearError([w EXCEPT ![FocusField(w)] =
                          IF ManualAccepts(w, c) THEN Append(@, c) ELSE @]),
                       "None")}
    ELSE {Outcome(w, "None")}

\* ManualAddWidget::handle_key without the confirmation popup: every key is
\* handled by the form.
ManualHandleKey_NoPopup(w, code, c) ==
    IF code = "Enter" /\ w.input_focus = "Date" /\ w.book_matches # <<>>
    THEN {Outcome(w, "AddReading")}
    ELSE ManualFormKey(w, code, c)

\* ManualAddWidget::handle_key.
ManualHandleKey(w, code, c) ==
    IF w.show_confirmation
    THEN IF code = "Enter"
         THEN IF w.book_matches = <<>>
              THEN {Outcome([w EXCEPT !.show_confirmation = FALSE,
                                      !.error_message = TRUE], "None")}
              ELSE {Outcome([w EXCEPT !.show_confirmation = FALSE],
                            "AddReading")}
         ELSE IF code = "Esc"
         THEN {Outcome([w EXCEPT !.show_confirmation = FALSE], "None")}
         ELSE {Outcome(w, "None")}
    ELSE ManualFormKey(w, code, c)

\* add_reading of the open form on the progress bs: the selected book is
\* book_matches[selected_book_index], which panics out of bounds.
WidgetForm(w) ==
    [book |-> IF w.book_matches = <<>> THEN ""
              ELSE w.book_matches[w.selected_book_index + 1],
     chapter_input |-> w.chapter_input, verse_input |-> w.verse_input,
     verse_end_input |-> w.verse_end_input,
     read_count_input |-> w.read_count_input, date_input |-> w.date_input,
     error_message |-> w.error_message]
WidgetAddReading(w, bs, now) ==
    IF w.book_matches # <<>> /\ w.selected_book_index >= Len(w.book_matches)
    THEN [ok |-> FALSE, books |-> bs, panicked |-> TRUE]
    ELSE CHOOSE res \in
            {[ok |-> r.ok, books |-> r.books, panicked |-> r.panicked] :
                r \in {IF w.kind = "Record"
                       THEN RecordAddReading(bs, WidgetForm(w), now)
                       ELSE ManualAddReading(bs, WidgetForm(w), now)}} : TRUE
\* The fields add_reading clears before it returns Ok.
AfterAdd(w) ==
    [w EXCEPT !.chapter_input = <<>>, !.verse_input = <<>>,
              !.verse_end_input = <<>>, !.read_count_input = <<>>,
              !.date_input = <<>>, !.error_message = FALSE,
              !.show_confirmation = FALSE, !.input_focus = "Chapter"]

VARIABLES
    map,        \* RangeMap::map
    prev,       \* the map before the last operation
    op,         \* the last operation and its arguments
    result,     \* what the last range() call yielded
    panicked,   \* the last operation panicked
    illFormed,  \* how many inserts so far had a zero-width or inverted range
    books,      \* ReadingProgress::books
    today,      \* the day Utc::now().date_naive() yields
    pbooks,     \* books before the last operation on the progress
    pop,        \* the last operation on the progress, its inputs and outcome
    form,       \* the input fields of the open form
    run,        \* what has been marked so far, when it is one run of verses
    pc,         \* where main is
    terminal,   \* the state of the terminal: "cooked", "raw" or "restored"
    running,    \* App::running
    exit,       \* what main returns: "none" while it runs, "ok" or "err"
    disk,       \* the progress file
    mode        \* App::mode with the fields of its widget

rvars == <<map, prev, op, result, panicked, illFormed>>
pvars == <<books, today, pbooks, pop, form, run>>
avars == <<pc, terminal, running, exit, disk, mode>>
vars == <<map, prev, op, result, panicked, illFormed,
          books, today, pbooks, pop, form, run,
          pc, terminal, running, exit, disk, mode>>

\* An empty text field is <<>>.
EmptyForm == [book |-> "", chapter_input |-> <<>>, verse_input |-> <<>>,
              verse_end_input |-> <<>>, read_count_input |-> <<>>,
              date_input |-> <<>>, error_message |-> FALSE]
NoPOp == [kind |-> "new", book |-> "", input |-> <<>>, outcome |-> "ok"]
NoRun == [state |-> "none", book |-> "", chapter |-> 0, a |-> 0, b |-> 0,
          k |-> 0, day |-> 0]

\* ReadingProgress::new(), before any form is opened.
ProgressInit ==
    /\ books = <<>>
    /\ today = 1
    /\ pbooks = <<>>
    /\ pop = NoPOp
    /\ form = EmptyForm
    /\ run = NoRun

\* No progress file.
NoFile == [state |-> "missing", books |-> <<>>]
\* The application inside its event loop, the dashboard shown: where the
\* specifications of the RangeMap, of the progress and of the forms start.
AppInit ==
    /\ pc = "run"
    /\ terminal = "raw"
    /\ running = TRUE
    /\ exit = "none"
    /\ disk = NoFile
    /\ mode = Dashboard

NoOp == [kind |-> "new", start |-> 0, end |-> 0, value |-> 0, merge |-> "none"]

\* RangeMap::new().
RangeMapInit ==
    /\ map = EmptyMap
    /\ prev = EmptyMap
    /\ op = NoOp
    /\ result = <<>>
    /\ panicked = FALSE
    /\ illFormed = 0

Init ==
    /\ RangeMapInit
    /\ ProgressInit
    /\ AppInit

\* The stored values an insert over rs..re meets.
Overlapped(m, rs, re) == {m[s][2] : s \in {k \in DOMAIN m : k < re /\ m[k][1] > rs}}

\* The additive merge stays inside Values.
AddInBounds(m, rs, re, value, merge) ==
    merge = "add" => \A v \in Overlapped(m, rs, re) : v + value <= MaxVal

DoInsert(kind, rs, re, value, merge) ==
    LET r == InsertWith(map, rs, re, value, merge)
    IN /\ map' = r.map
       /\ panicked' = r.panicked
       /\ prev' = map
       /\ op' = [kind |-> kind, start |-> rs, end |-> re, value |-> value,
                 merge |-> merge]
       /\ result' = <<>>

\* The caller has read the map back (or has just built it).  The history
\* variables prev, op and result describe one operation; iter() takes &self
\* and changes nothing, so exploring each operation from the states in which
\* the map has been read back reaches the maps of arbitrary call sequences.
Observed == op.kind \in {"new", "iter"}

\* insert_with over a non-empty range.
InsertWithOp ==
    /\ ~panicked
    /\ Observed
    /\ \E rs \in Keys, re \in Keys, value \in Values, merge \in Merges :
          /\ rs < re
          /\ AddInBounds(map, rs, re, value, merge)
          /\ DoInsert("insert_with", rs, re, value, merge)
    /\ UNCHANGED illFormed
    /\ UNCHANGED <<pvars, avars>>

\* insert_replace over a non-empty range.
InsertReplaceOp ==
    /\ ~panicked
    /\ Observed
    /\ \E rs \in Keys, re \in Keys, value \in Values :
          /\ rs < re
          /\ DoInsert("insert_replace", rs, re, value, "replace")
    /\ UNCHANGED illFormed
    /\ UNCHANGED <<pvars, avars>>

\* insert_with / insert_replace over a zero-width or inverted range.
InsertIllFormedOp ==
    /\ ~panicked
    /\ Observed
    /\ illFormed < MaxIllFormed
    /\ illFormed' = illFormed + 1
    /\ UNCHANGED <<pvars, avars>>
    /\ \E rs \in Keys, re \in Keys, value \in Values, merge \in Merges,
          kind \in {"insert_with", "insert_replace"} :
          /\ rs >= re
          /\ kind = "insert_replace" => merge = "replace"
          /\ AddInBounds(map, rs, re, value, merge)
          /\ DoInsert(kind, rs, re, value, merge)

\* range(qs..qe); self.map.range(range) on line 53 panics for an inverted
\* range.
RangeOp ==
    /\ ~panicked
    /\ Observed
    /\ \E qs \in Keys, qe \in Keys :
          /\ op' = [kind |-> "range", start |-> qs, end |-> qe, value |-> 0,
                    merge |-> "none"]
          /\ panicked' = RangePanics(map, qs, qe)
          /\ result' = IF RangePanics(map, qs, qe) THEN <<>>
                       ELSE RangeQuery(map, qs, qe)
          /\ prev' = map
          /\ map' = map
    /\ UNCHANGED illFormed
    /\ UNCHANGED <<pvars, avars>>

\* iter(): all stored entries in ascending order of start.
Iter(m) == LET keys == SortedSeq(DOMAIN m)
           IN [i \in 1 .. Len(keys) |-> <<keys[i], m[keys[i]][1], m[keys[i]][2]>>]

IterOp ==
    /\ ~panicked
    /\ op' = [kind |-> "iter", start |-> 0, end |-> 0, value |-> 0,
              merge |-> "none"]
    /\ result' = Iter(map)
    /\ prev' = map
    /\ map' = map
    /\ panicked' = FALSE
    /\ UNCHANGED illFormed
    /\ UNCHANGED <<pvars, avars>>

\* Inserts over non-empty ranges only, queries and iteration.
Next == InsertWithOp \/ InsertReplaceOp \/ RangeOp \/ IterOp

Spec == Init /\ [][Next]_vars

\* Every insert the signature admits, and iteration.
NextTotal == InsertWithOp \/ InsertReplaceOp \/ InsertIllFormedOp \/ IterOp

SpecTotal == Init /\ [][NextTotal]_vars

\* ------------------------------------------- the ReadingProgress interface
\* The (chapter, verse) pairs of a book.
VersesOf(book) ==
    {<<c, v>> \in (1 .. Len(ChaptersOf(book))) \X (1 .. MaxVerse) :
        v <= ChaptersOf(book)[c]}
DateOptions == {<<>>} \cup {<<d>> : d \in Days}
Counts == 0 .. MaxCount

\* The progress has been read back (or has just been built); see Observed.
PObserved == pop.kind \in {"new", "read"}
Crashed == pop.outcome = "panic"

\* One call of the interface: r is what the call leaves.
DoProgress(kind, book, input, r) ==
    /\ books' = (IF r.panicked THEN books ELSE r.books)
    /\ pbooks' = books
    /\ pop' = [kind |-> kind, book |-> book, input |-> input,
               outcome |-> IF r.panicked THEN "panic" ELSE "ok"]

\* The additive merge of mark_read stays inside Counts.
MarkInBounds(bs, book, chapter, verse) ==
    \A r \in RecordsAt(bs, book, chapter, verse) : r.read_count < MaxCount

MarkReadOp ==
    /\ ~Crashed
    /\ PObserved
    /\ \E book \in BookNames :
          \E cv \in VersesOf(book) :
             /\ MarkInBounds(books, book, cv[1], cv[2])
             /\ DoProgress("mark_read", book,
                           [chapter |-> cv[1], verse |-> cv[2]],
                           MarkRead(books, book, cv[1], cv[2], today))
    /\ UNCHANGED <<today, form, run>>
    /\ UNCHANGED <<rvars, avars>>

SetReadCountOp ==
    /\ ~Crashed
    /\ PObserved
    /\ \E book \in BookNames, count \in Counts, date \in DateOptions :
          \E cv \in VersesOf(book) :
             DoProgress("set_read_count", book,
                        [chapter |-> cv[1], verse |-> cv[2],
                         count |-> count, date |-> date],
                        SetReadCount(books, book, cv[1], cv[2], count, date,
                                     today))
    /\ UNCHANGED <<today, form, run>>
    /\ UNCHANGED <<rvars, avars>>

MarkReadOverwriteOp ==
    /\ ~Crashed
    /\ PObserved
    /\ \E book \in BookNames, count \in Counts, date \in DateOptions :
          \E cv \in VersesOf(book) :
             DoProgress("mark_read_overwrite", book,
                        [chapter |-> cv[1], verse |-> cv[2],
                         count |-> count, date |-> date],
                        MarkReadOverwrite(books, book, cv[1], cv[2], count,
                                          date, today))
    /\ UNCHANGED <<today, form, run>>
    /\ UNCHANGED <<rvars, avars>>

\* Utc::now() moves on to the next day between two calls.
NextDayOp ==
    /\ ~Crashed
    /\ PObserved
    /\ today < MaxDay
    /\ today' = today + 1
    /\ UNCHANGED <<books, pbooks, pop, form, run>>
    /\ UNCHANGED <<rvars, avars>>

\* dashboard_mode(): the open form is dropped and the records are read back
\* into a new dashboard.
ReadBackOp ==
    /\ ~Crashed
    /\ pop' = [kind |-> "read", book |-> "", input |-> <<>>,
               outcome |-> "ok"]
    /\ pbooks' = books
    /\ form' = EmptyForm
    /\ UNCHANGED <<books, today, run>>
    /\ UNCHANGED <<rvars, avars>>

NextProgress ==
    MarkReadOp \/ SetReadCountOp \/ MarkReadOverwriteOp \/ NextDayOp
    \/ ReadBackOp

SpecProgress == Init /\ [][NextProgress]_vars

\* The verse the last interface call was about.
PChapter == pop.input.chapter
PVerse == pop.input.verse
\* The read count of a verse: the record covering it, if any.
CountsAt(bs, book, chapter, verse) ==
    {r.read_count : r \in RecordsAt(bs, book, chapter, verse)}

\* C11: after mark_read(book, ref) the verse ref has read_count one more than
\* before (1 if it had no record) and last_read equal to today, also when the
\* verse was already marked the same day.
C11_MarkReadIncrements ==
    (pop.kind = "mark_read" /\ pop.outcome = "ok") =>
        LET before == CountsAt(pbooks, pop.book, PChapter, PVerse)
            n == IF before = {} THEN 0 ELSE Max(before)
        IN RecordsAt(books, pop.book, PChapter, PVerse)
              = {ReadingRecord(n + 1, today)}

\* C12: after set_read_count(book, ref, count, date) the verse ref is covered
\* by a record with read_count = count and last_read = date (today if no date
\* was given), and the records of the other verses of the book are unchanged.
C12_SetReadCountCovers ==
    (pop.kind = "set_read_count" /\ pop.outcome = "ok") =>
        /\ RecordsAt(books, pop.book, PChapter, PVerse)
              = {ReadingRecord(pop.input.count,
                               UnwrapOrToday(pop.input.date, today))}
        /\ \A cv \in VersesOf(pop.book) \ {<<PChapter, PVerse>>} :
              RecordsAt(books, pop.book, cv[1], cv[2])
                 = RecordsAt(pbooks, pop.book, cv[1], cv[2])

\* ------------------------------------------------------- the record form
\* The book with the most chapters.
MaxChapter == Max({Len(AllBooks[i].chapters) : i \in DOMAIN AllBooks})
\* What the user can have typed into the chapter field.
ChapterTexts ==
    {<<>>, <<"x">>} \cup {NumText(n) : n \in 0 .. (MaxChapter + 1)}
\* What the user can have typed into the verse field: nothing, a verse, a
\* range, a list, and malformed text.
VerseTexts ==
    {<<>>, <<"x">>, <<"1", ",", "2">>, <<" ", "1">>, <<"1", "-">>}
    \cup {NumText(v) : v \in 1 .. (MaxVerse + 1)}
    \cup {NumText(a) \o <<"-">> \o NumText(b) :
             a \in 1 .. (MaxVerse + 1), b \in 1 .. (MaxVerse + 1)}
\* The selected book; "" when book_matches is empty.
BookChoices == BookNames \cup {""}

\* No stored read count exceeds MaxCount.
InCountBounds(bs) ==
    \A b \in DOMAIN bs : \A k \in DOMAIN bs[b] :
        bs[b][k][2].read_count <= MaxCount

\* What has been marked so far, after a successful add over ranges.
NextRun(book, chapter, ranges) ==
    IF Len(ranges) = 1 /\ ranges[1][1] >= 1
    THEN IF run.state = "none"
         THEN [state |-> "run", book |-> book, chapter |-> chapter,
               a |-> ranges[1][1], b |-> ranges[1][2], k |-> 1,
               day |-> today]
         ELSE IF /\ run.state = "run"
                 /\ run.book = book /\ run.chapter = chapter
                 /\ run.a = ranges[1][1] /\ run.b = ranges[1][2]
                 /\ run.day < today
         THEN [run EXCEPT !.k = run.k + 1, !.day = today]
         ELSE [NoRun EXCEPT !.state = "other"]
    ELSE [NoRun EXCEPT !.state = "other"]

\* RecordAction::AddReading: add_reading on the typed fields; an error is
\* stored in the form, a success clears the chapter and verse fields.
RecordAdd(verse_texts) ==
    /\ ~Crashed
    /\ PObserved
    /\ \E book \in BookChoices, chapter_input \in ChapterTexts,
          verse_input \in verse_texts :
          \E f \in {[EmptyForm EXCEPT !.book = book,
                                      !.chapter_input = chapter_input,
                                      !.verse_input = verse_input]} :
             \E r \in {RecordAddReading(books, f, today)} :
                /\ InCountBounds(r.books)
                /\ books' = r.books
                /\ pbooks' = books
                /\ pop' = [kind |-> "record_add", book |-> book,
                           input |-> f,
                           outcome |-> IF r.panicked THEN "panic"
                                       ELSE IF r.ok THEN "ok" ELSE "err"]
                /\ form' = (IF r.ok THEN [EmptyForm EXCEPT !.book = book]
                            ELSE [f EXCEPT !.error_message = TRUE])
                /\ run' = (IF r.ok
                           THEN NextRun(book,
                                        ParseU32(Trim(chapter_input))[1],
                                        r.ranges)
                           ELSE run)
    /\ UNCHANGED today
    /\ UNCHANGED <<rvars, avars>>

RecordAddReadingOp == RecordAdd(VerseTexts)

NextRecord == RecordAddReadingOp \/ NextDayOp \/ ReadBackOp

SpecRecord == Init /\ [][NextRecord]_vars

\* C13: from an empty progress, marking every verse of one run a..=b of a
\* chapter once on each of k successive days leaves, for that book, exactly
\* the one interval [(chapter, a), (chapter, b+1)) with read_count k and
\* last_read the last of those days.
C13_RunOnSuccessiveDays ==
    run.state = "run" =>
        books = [b \in {run.book} |->
                    (Ref(run.chapter, run.a)
                        :> <<Ref(run.chapter, run.b + 1),
                             ReadingRecord(run.k, run.day)>>)]
C13_Witness ==
    /\ run.state = "run"
    /\ run.k = MaxDay
    /\ run.a < run.b
    /\ pop.kind = "record_add"

\* --------------------------------------------- the verse field from verse 0
\* What the user can have typed into the verse field when the verse numbers
\* start from 0: nothing, a verse, a range, a list.
VerseTextsFromZero ==
    {<<>>, <<"0", ",", "1">>}
    \cup {NumText(v) : v \in 0 .. (MaxVerse + 1)}
    \cup {NumText(a) \o <<"-">> \o NumText(b) :
             a \in 0 .. (MaxVerse + 1), b \in 0 .. (MaxVerse + 1)}

RecordAddFromZeroOp == RecordAdd(VerseTextsFromZero)

NextVerses == RecordAddFromZeroOp \/ ReadBackOp

SpecVerses == Init /\ [][NextVerses]_vars

\* The verse ranges the last add of the record form parsed from its verse
\* field, for the chapter of its chapter field.
AddedChapter == ParseU32(Trim(pop.input.chapter_input))[1]
AddedMaxVerse == ChaptersOf(pop.book)[AddedChapter]
AddedRanges == ParseVerseRanges(pop.input.verse_input, AddedMaxVerse).ranges

\* C21: when the record form adds a reading from a verse field that is not
\* blank, every pair (start, end) parse_verse_ranges returned has
\* 1 <= start <= end <= max_verse, and every verse with a record in the
\* progress is a verse of its chapter.
C21_ParsedVersesExist ==
    (/\ pop.kind = "record_add" /\ pop.outcome = "ok"
     /\ Trim(pop.input.verse_input) # <<>>)
    => /\ \A i \in DOMAIN AddedRanges :
             /\ 1 <= AddedRanges[i][1]
             /\ AddedRanges[i][1] <= AddedRanges[i][2]
             /\ AddedRanges[i][2] <= AddedMaxVerse
       /\ \A c \in 1 .. Len(ChaptersOf(pop.book)) :
             \A v \in 0 .. (Stride - 1) :
                RecordsAt(books, pop.book, c, v) # {}
                   => v \in 1 .. ChaptersOf(pop.book)[c]

\* ------------------------------------------------------- the manual form
\* What the user can have typed into the fields of the manual form.
ManualChapterTexts ==
    {<<>>, <<"x">>} \cup {NumText(n) : n \in 1 .. (MaxChapter + 1)}
    \cup {NumText(a) \o <<"-">> \o NumText(b) :
             a \in 1 .. MaxChapter, b \in 1 .. (MaxChapter + 1)}
ManualVerseTexts == {<<>>, <<"x">>, NumText(1), NumText(MaxVerse + 1)}
CountTexts == {<<>>, <<"x">>, NumText(0)}
DateTexts == {<<>>, <<"x">>, DateText(MaxDay)}
\* The end-verse field is read only for a chapter range.
ManualForms ==
    {[EmptyForm EXCEPT !.book = book, !.chapter_input = chapter_input,
                       !.verse_input = verse_input,
                       !.verse_end_input = verse_end_input,
                       !.read_count_input = read_count_input,
                       !.date_input = date_input] :
        book \in BookChoices, chapter_input \in ManualChapterTexts,
        verse_input \in ManualVerseTexts,
        verse_end_input \in ManualVerseTexts,
        read_count_input \in CountTexts, date_input \in DateTexts}

\* ManualAddAction::AddReading: add_reading on the typed fields; an error is
\* stored in the form, a success clears the fields.
ManualAddReadingOp ==
    /\ ~Crashed
    /\ PObserved
    /\ \E f \in ManualForms :
          /\ Contains(f.chapter_input, "-") \/ f.verse_end_input = <<>>
          /\ \E r \in {ManualAddReading(books, f, today)} :
                /\ books' = r.books
                /\ pbooks' = books
                /\ pop' = [kind |-> "manual_add", book |-> f.book,
                           input |-> f,
                           outcome |-> IF r.panicked THEN "panic"
                                       ELSE IF r.ok THEN "ok" ELSE "err"]
                /\ form' = (IF r.ok THEN [EmptyForm EXCEPT !.book = f.book]
                            ELSE [f EXCEPT !.error_message = TRUE])
    /\ UNCHANGED <<today, run>>
    /\ UNCHANGED <<rvars, avars>>

NextManual == ManualAddReadingOp \/ ReadBackOp

SpecManual == Init /\ [][NextManual]_vars

\* Every stored record of the progress.
StoredRecords(bs) ==
    UNION {{bs[b][k][2] : k \in DOMAIN bs[b]} : b \in DOMAIN bs}

\* C14: every stored ReadingRecord has read_count >= 1; a verse with read
\* count 0 is represented only by the absence of a record.
C14_StoredCountsPositive ==
    \A r \in StoredRecords(books) : r.read_count >= 1

\* C20: when add_reading of the record form or of the manual form returns an
\* error, the progress is as it was before the call and the fields of the form
\* are retained, also for a chapter range with valid start-chapter verses and
\* invalid end-chapter verses.
C20_ErrorLeavesProgress ==
    (pop.kind \in {"record_add", "manual_add"} /\ pop.outcome = "err") =>
        /\ books = pbooks
        /\ form = [pop.input EXCEPT !.error_message = TRUE]

\* C15: touching stored ranges whose records have equal read_count are fused,
\* whatever their last_read dates.
C15_FusesOnReadCount ==
    \A b \in DOMAIN books : \A s1 \in DOMAIN books[b], s2 \in DOMAIN books[b] :
        books[b][s1][1] = s2 =>
            books[b][s1][2].read_count # books[b][s2][2].read_count

\* ------------------------------------------------------- the application
\* A progress an earlier session can have saved.
SavedProgress == {<<>>, MarkRead(<<>>, "Genesis", 1, 1, 1).books}
\* The progress file when main starts: missing, not readable, not parsable,
\* or the YAML of a saved progress.
DiskStates ==
    {NoFile, [state |-> "unreadable", books |-> <<>>],
     [state |-> "corrupt", books |-> <<>>]}
    \cup {[state |-> "good", books |-> bs] : bs \in SavedProgress}
\* What a successful save_progress leaves.
Saved(bs) == [state |-> "good", books |-> bs]

\* The start of main, before color_eyre::install().
InitMain ==
    /\ RangeMapInit
    /\ ProgressInit
    /\ pc = "start"
    /\ terminal = "cooked"
    /\ running = FALSE
    /\ exit = "none"
    /\ disk \in DiskStates
    /\ mode = Dashboard

\* An event of the application, with what it met and what came of it.
AppEvent(kind, input, outcome) ==
    [kind |-> kind, book |-> "", input |-> input, outcome |-> outcome]

\* main up to ratatui::init(): color_eyre::install()? and Config::load()?
\* can fail, --show-config prints and returns, otherwise the terminal is
\* taken.
MainStartOp ==
    /\ pc = "start"
    /\ \E way \in {"error", "show_config", "tui"} :
          /\ pc' = (IF way = "tui" THEN "new" ELSE "exit")
          /\ exit' = (IF way = "error" THEN "err"
                      ELSE IF way = "show_config" THEN "ok" ELSE exit)
          /\ terminal' = (IF way = "tui" THEN "raw" ELSE terminal)
          /\ pop' = AppEvent("main", way, "ok")
    /\ UNCHANGED <<running, disk, mode, books, today, pbooks, form, run>>
    /\ UNCHANGED rvars

\* load_progress: Ok(ReadingProgress::new()) without a file, Err when
\* read_to_string or serde_yaml::from_str fails.  <<bs>> is Ok(bs), <<>> Err.
LoadProgress(d) ==
    IF d.state = "missing" THEN <<<<>>>>
    ELSE IF d.state = "good" THEN <<d.books>>
    ELSE <<>>

\* App::new_with_config(config)? in main: an Err of load_progress is
\* returned from main by the ? operator.
NewWithConfigOp ==
    /\ pc = "new"
    /\ \E loaded \in {LoadProgress(disk)} :
          IF loaded = <<>>
          THEN /\ pc' = "exit"
               /\ exit' = "err"
               /\ pop' = AppEvent("load", disk.state, "err")
               /\ UNCHANGED <<running, mode, books, pbooks>>
          ELSE /\ pc' = "run"
               /\ running' = TRUE
               /\ mode' = Dashboard
               /\ books' = loaded[1]
               /\ pbooks' = loaded[1]
               /\ pop' = AppEvent("load", disk.state, "ok")
               /\ UNCHANGED exit
    /\ UNCHANGED <<terminal, disk, today, form, run>>
    /\ UNCHANGED rvars

\* App::run is in its loop.
Looping == pc = "run" /\ running
\* The frame has been drawn and handle_events waits for an event.
Drawn == Looping /\ pop.kind = "read"

\* terminal.draw(|frame| self.render(frame))?: the widget of the mode is
\* rendered from the state, or the draw fails and run returns the error.
DrawOp ==
    /\ Looping
    /\ pop.kind # "read"
    /\ \E drawn \in BOOLEAN :
          /\ pop' = AppEvent("read", <<>>, IF drawn THEN "ok" ELSE "err")
          /\ pc' = (IF drawn THEN pc ELSE "restore")
          /\ exit' = (IF drawn THEN exit ELSE "err")
    /\ pbooks' = books
    /\ UNCHANGED <<terminal, running, disk, mode, books, today, form, run>>
    /\ UNCHANGED rvars

\* event::read()? fails and run returns the error.
ReadEventFailsOp ==
    /\ Drawn
    /\ pop.outcome = "ok"
    /\ pc' = "restore"
    /\ exit' = "err"
    /\ pop' = AppEvent("event", <<>>, "err")
    /\ UNCHANGED <<terminal, running, disk, mode, books, today, pbooks, form,
                   run>>
    /\ UNCHANGED rvars

\* A key in Dashboard mode: DashboardWidget::handle_key gives the action,
\* handle_dashboard_action carries it out; quit saves, reports a failure on
\* stderr and stops the loop.
DashboardKeyOp ==
    /\ Drawn
    /\ pop.outcome = "ok"
    /\ mode.kind = "Dashboard"
    /\ \E action \in {"None", "Quit", "StartRecord", "StartManualAdd"},
          saved \in BOOLEAN :
          /\ action # "Quit" => saved
          /\ mode' = (IF action = "StartRecord" THEN NewWidget("Record")
                      ELSE IF action = "StartManualAdd"
                      THEN NewWidget("ManualAdd")
                      ELSE mode)
          /\ running' = (action # "Quit")
          /\ disk' = (IF action = "Quit" /\ saved THEN Saved(books) ELSE disk)
          /\ pop' = AppEvent("dashboard_key",
                             [action |-> action, saved |-> saved], "ok")
    /\ pbooks' = books
    /\ UNCHANGED <<pc, terminal, exit, books, today, form, run>>
    /\ UNCHANGED rvars

\* The longest text a field is typed to.
CanType(w, code) ==
    code = "Char" => Len(w[FocusField(w)]) < MaxText

\* What handle_events does with the outcome r of handle_key on the key
\* (code, c) in Record or ManualAdd mode: Cancel goes back to the dashboard;
\* AddReading calls add_reading, stores an error in the form, and after a
\* success saves with save_progress(..)? and goes back to the dashboard.
\* A panic ends the loop at pc = "panic"; the unwinding is not modelled.
FormKey(code, c, r) ==
    LET key == [code |-> code, c |-> c, before |-> mode, after |-> r.w,
                action |-> r.action]
    IN /\ pbooks' = books
       /\ IF r.action = "Panic"
          THEN /\ pc' = "panic"
               /\ pop' = AppEvent("key", key, "panic")
               /\ UNCHANGED <<mode, books, disk, exit>>
          ELSE IF r.action = "None"
          THEN /\ mode' = r.w
               /\ pop' = AppEvent("key", key, "ok")
               /\ UNCHANGED <<pc, books, disk, exit>>
          ELSE IF r.action = "Cancel"
          THEN /\ mode' = Dashboard
               /\ pop' = AppEvent("key", key, "ok")
               /\ UNCHANGED <<pc, books, disk, exit>>
          ELSE \E res \in {WidgetAddReading(r.w, books, today)} :
                  /\ InCountBounds(res.books)
                  /\ books' = res.books
                  /\ IF res.panicked
                     THEN /\ pc' = "panic"
                          /\ pop' = AppEvent("key", key, "panic")
                          /\ UNCHANGED <<mode, disk, exit>>
                     ELSE IF ~res.ok
                     THEN /\ mode' = [r.w EXCEPT !.error_message = TRUE]
                          /\ pop' = AppEvent("key", key, "add_err")
                          /\ UNCHANGED <<pc, disk, exit>>
                     ELSE \E saved \in BOOLEAN :
                             IF saved
                             THEN /\ mode' = Dashboard
                                  /\ disk' = Saved(res.books)
                                  /\ pop' = AppEvent("key", key, "added")
                                  /\ UNCHANGED <<pc, exit>>
                             ELSE /\ mode' = AfterAdd(r.w)
                                  /\ pc' = "restore"
                                  /\ exit' = "err"
                                  /\ pop' = AppEvent("key", key, "save_err")
                                  /\ UNCHANGED disk

\* A key in Record mode.
RecordKeyOp ==
    /\ Drawn
    /\ pop.outcome = "ok"
    /\ mode.kind = "Record"
    /\ \E key \in KeyEvents :
          /\ CanType(mode, key[1])
          /\ \E r \in RecordHandleKey(mode, key[1], key[2]) :
                FormKey(key[1], key[2], r)
    /\ UNCHANGED <<terminal, running, today, form, run>>
    /\ UNCHANGED rvars

\* A key in ManualAdd mode.
ManualKeyOp ==
    /\ Drawn
    /\ pop.outcome = "ok"
    /\ mode.kind = "ManualAdd"
    /\ \E key \in KeyEvents :
          /\ CanType(mode, key[1])
          /\ \E r \in ManualHandleKey(mode, key[1], key[2]) :
                FormKey(key[1], key[2], r)
    /\ UNCHANGED <<terminal, running, today, form, run>>
    /\ UNCHANGED rvars

\* run returns Ok(()) when running is false.
RunReturnsOp ==
    /\ pc = "run"
    /\ ~running
    /\ pc' = "restore"
    /\ exit' = "ok"
    /\ UNCHANGED <<terminal, running, disk, mode>>
    /\ UNCHANGED <<pvars, rvars>>

\* ratatui::restore() and the return of main with the result of run.
RestoreOp ==
    /\ pc = "restore"
    /\ terminal' = "restored"
    /\ pc' = "exit"
    /\ UNCHANGED <<running, exit, disk, mode>>
    /\ UNCHANGED <<pvars, rvars>>

NextApp ==
    MainStartOp \/ NewWithConfigOp \/ DrawOp \/ ReadEventFailsOp
    \/ DashboardKeyOp \/ RecordKeyOp \/ ManualKeyOp \/ RunReturnsOp
    \/ RestoreOp

SpecApp == InitMain /\ [][NextApp]_vars

\* -------------------------------------------- claims on the application
\* C22: when the progress file exists but cannot be parsed, start-up does not
\* fail: App::new_with_config leaves the application in its loop, showing
\* the dashboard, with an empty progress.
C22_CorruptFileStartsEmpty ==
    (pop.kind = "load" /\ pop.input = "corrupt") =>
        /\ pc = "run"
        /\ running
        /\ exit = "none"
        /\ mode = Dashboard
        /\ books = <<>>

\* C23: when save_progress fails after a successful add in Record or
\* ManualAdd mode, the event loop keeps running, run does not return an
\* error, and the progress in memory holds the added reading.
C23_SaveFailureNotFatal ==
    (pop.kind = "key" /\ pop.outcome = "save_err") =>
        /\ pc = "run"
        /\ running
        /\ exit = "none"
        /\ books = WidgetAddReading(pop.input.after, pbooks, today).books

\* C28: in the record form and in the manual form, after every key,
\* selected_book_index < book_matches.len() whenever book_matches is not
\* empty.
C28_SelectedBookInBounds ==
    (mode.kind \in {"Record", "ManualAdd"} /\ mode.book_matches # <<>>) =>
        mode.selected_book_index < Len(mode.book_matches)

\* The key the manual form handled last, the widget before it and what
\* handle_key left and returned.
ManualKey == pop.kind = "key" /\ pop.input.before.kind = "ManualAdd"
\* The input fields of a form.
Inputs(w) ==
    <<w.book_search, w.book_matches, w.selected_book_index, w.chapter_input,
      w.verse_input, w.verse_end_input, w.read_count_input, w.date_input>>

\* C29: the manual form returns AddReading with an empty chapter field only
\* for Enter in the confirmation popup; in the popup a key other than Enter
\* and Esc changes nothing, and Esc closes the popup, returns None and leaves
\* the inputs and the progress as they are.
C29_WholeBookOnlyByPopup ==
    ManualKey =>
        LET key == pop.input
        IN /\ (key.action = "AddReading"
                  /\ Trim(key.before.chapter_input) = <<>>)
                 => (key.code = "Enter" /\ key.before.show_confirmation)
           /\ (key.before.show_confirmation
                  /\ key.code \notin {"Enter", "Esc"})
                 => (/\ key.action = "None"
                     /\ mode = key.before
                     /\ books = pbooks)
           /\ (key.before.show_confirmation /\ key.code = "Esc")
                 => (/\ key.action = "None"
                     /\ mode.kind = "ManualAdd"
                     /\ ~mode.show_confirmation
                     /\ Inputs(mode) = Inputs(key.before)
                     /\ books = pbooks)
C29_Witness ==
    /\ ManualKey
    /\ pop.input.before.show_confirmation
    /\ pop.input.action = "AddReading"
    /\ pop.outcome = "added"
    /\ books # pbooks

\* C30: when main has returned and ratatui::init() had been called,
\* ratatui::restore() has been called.
C30_TerminalRestored == pc = "exit" => terminal # "raw"

\* ------------------------------------------------ claims on the statistics
\* The statistics and colours are computed when the dashboard is built from
\* the progress, that is in the states PObserved; every progress a behaviour
\* reaches is read back in such a state.
\* The read count of a verse: the greatest read count of the stored ranges
\* that cover it, 0 if there is none.
ReadCountOf(bs, book, chapter, verse) ==
    Max(CountsAt(bs, book, chapter, verse) \cup {0})
OTNames == {BibleOT[i].name : i \in DOMAIN BibleOT}
ChaptersIn(book) == 1 .. Len(ChaptersOf(book))
ChapterStats(bs, book, chapter) ==
    CalculateChapterReadStats(chapter, ChaptersOf(book)[chapter],
                              BookRecords(bs, book))
BookMin(bs, book) ==
    CalculateBookReadStats(ChaptersOf(book), BookRecords(bs, book))[1]
ChapterColorOf(bs, book, chapter) ==
    ChapterStyle(chapter, ChaptersOf(book)[chapter], BookRecords(bs, book),
                 BookMin(bs, book))
GreenChapters(bs, book) ==
    {c \in ChaptersIn(book) : BookChapterColors(bs, book)[c]}
\* The verses of the books of the Old Testament.
OTVerses ==
    UNION {{<<b, cv[1], cv[2]>> : cv \in VersesOf(b)} : b \in OTNames}
\* The chapter has minimum 0 and a verse that has been read, and the minimum
\* of the book is 0.
PartlyRead(bs, book, chapter) ==
    /\ ChapterStats(bs, book, chapter)[1] = 0
    /\ \E v \in 1 .. ChaptersOf(book)[chapter] :
          ReadCountOf(bs, book, chapter, v) >= 1
    /\ BookMin(bs, book) = 0

\* C16: calculate_chapter_read_stats returns (0, 0, 0) for every chapter all
\* of whose verses have read count zero, with or without a RangeMap for the
\* book.
C16_UnreadChapterStats ==
    PObserved =>
        \A book \in BookNames : \A c \in ChaptersIn(book) :
            (\A v \in 1 .. ChaptersOf(book)[c] :
                ReadCountOf(books, book, c, v) = 0)
            => ChapterStats(books, book, c) = <<0, 0, 0>>

\* C17: the testament minimum is the minimum read count over all verses of
\* all books of the testament, a verse of a book without an entry counting 0.
C17_TestamentMinOverAllBooks ==
    PObserved =>
        CalculateTestamentMinReadCount(BibleOT, books)
           = Min({ReadCountOf(books, t[1], t[2], t[3]) : t \in OTVerses})

C19_BookColourFromChildrenOnly ==
    PObserved => \A book \in OTNames :
        LET green == GreenChapters(books, book)
            style == BookStyle(BibleOT, books, book)
        IN /\ style = "green" <=> green = ChaptersIn(book)
           /\ style = "yellow" <=> (green # {} /\ green # ChaptersIn(book))
\* C19: a book is green when all of its chapters are green and yellow when
\* some but not all of them are; a book none of whose chapters is green is
\* white when book_min == testament_min, otherwise green when some verse has a
\* read count of at least testament_min + 1, otherwise yellow.
C19_BookColourWithFallback ==
    PObserved => \A book \in OTNames :
        LET green == GreenChapters(books, book)
            style == BookStyle(BibleOT, books, book)
            testament_min == CalculateTestamentMinReadCount(BibleOT, books)
        IN /\ green = ChaptersIn(book) => style = "green"
           /\ (green # {} /\ green # ChaptersIn(book)) => style = "yellow"
           /\ green = {} =>
                 style = IF BookMin(books, book) = testament_min THEN "white"
                         ELSE IF \E cv \in VersesOf(book) :
                                    ReadCountOf(books, book, cv[1], cv[2])
                                       >= testament_min + 1
                         THEN "green"
                         ELSE "yellow"
C19_Witness ==
    /\ pop.kind = "read"
    /\ \E book \in OTNames :
          /\ GreenChapters(books, book) = {}
          /\ BookStyle(BibleOT, books, book) = "green"

\* ------------------------------------------- claims on frames and reach
\* C24: mark_read and mark_read_overwrite change only the one verse they
\* name: every other verse of the book and every verse of every other book is
\* covered by the same records after the call as before.
C24_MarkChangesOneVerse ==
    (pop.kind \in {"mark_read", "mark_read_overwrite"} /\ pop.outcome = "ok")
    => \A b \in BookNames :
          \A cv \in VersesOf(b) \ (IF b = pop.book
                                   THEN {<<PChapter, PVerse>>} ELSE {}) :
             RecordsAt(books, b, cv[1], cv[2])
                = RecordsAt(pbooks, b, cv[1], cv[2])

\* The stored ranges of one book as <<start, end, record>>.
StoredRanges(bs, book) ==
    {<<k, Entry(bs, book)[k][1], Entry(bs, book)[k][2]>> :
        k \in DOMAIN Entry(bs, book)}
\* The count get_verse_read_counts gives to a verse of a chapter of a book.
VerseCount(bs, book, chapter, verse) ==
    IF BookRecords(bs, book) = <<>> THEN 0
    ELSE GetCount(GetVerseReadCounts(chapter, ChaptersOf(book)[chapter],
                                     BookRecords(bs, book)[1]), verse)

\* C25: every stored range starts and ends in one chapter, and the count
\* get_verse_read_counts gives to a verse is the greatest read_count of the
\* stored ranges that cover the verse, 0 if there is none.
C25_RangesInOneChapter ==
    PObserved =>
        \A b \in BookNames :
            /\ \A e \in StoredRanges(books, b) :
                  ChapterOf(e[1]) = ChapterOf(e[2])
            /\ \A cv \in VersesOf(b) :
                  VerseCount(books, b, cv[1], cv[2])
                     = ReadCountOf(books, b, cv[1], cv[2])
C25_Witness ==
    /\ pop.kind = "read"
    /\ \E b \in BookNames : \E e \in StoredRanges(books, b) :
          /\ e[2] > e[1] + 1
          /\ e[3].read_count = MaxCount

BookStats(bs, book) ==
    CalculateBookReadStats(ChaptersOf(book), BookRecords(bs, book))

\* C27: the statistics (min, more, total) of every chapter and of every book
\* have more < total whenever total > 0.
C27_MoreBelowTotal ==
    PObserved =>
        \A book \in BookNames :
            /\ BookStats(books, book)[3] > 0
                  => BookStats(books, book)[2] < BookStats(books, book)[3]
            /\ \A c \in ChaptersIn(book) :
                  ChapterStats(books, book, c)[3] > 0
                     => ChapterStats(books, book, c)[2]
                           < ChapterStats(books, book, c)[3]
C27_Witness ==
    /\ pop.kind = "read"
    /\ \E book \in BookNames : \E c \in ChaptersIn(book) :
          /\ ChapterStats(books, book, c)[1] > 0
          /\ ChapterStats(books, book, c)[2] > 0
          /\ BookStats(books, book)[2] > 0

\* ------------------------------------------------------------ vocabulary
IsInsert == op.kind \in {"insert_with", "insert_replace"}
NonEmptyInsert == IsInsert /\ op.start < op.end /\ ~panicked

\* The values the map m carries on the cell [p, p+1).
ValuesAt(m, p) == {m[s][2] : s \in {k \in DOMAIN m : k <= p /\ p < m[k][1]}}

InRange(p) == op.start <= p /\ p < op.end

\* start < end for every entry, and entries sorted by start are disjoint.
WellFormed(m) ==
    /\ \A s \in DOMAIN m : s < m[s][1]
    /\ \A s1 \in DOMAIN m, s2 \in DOMAIN m : s1 < s2 => m[s1][1] <= s2

\* No two touching entries are coalesce-fusable.
NoFusablePair(m) ==
    \A s1 \in DOMAIN m, s2 \in DOMAIN m :
        (s1 # s2 /\ m[s1][1] = s2) => Coalesce(m[s1][2], m[s2][2]) = <<>>

\* ----------------------------------------------------------------- claims
\* C1: after any sequence of inserts over non-empty ranges on an initially
\* empty map, every stored entry has start < end and the stored ranges are
\* sorted by start and pairwise disjoint.
C1_SortedDisjoint == WellFormed(map)

\* An insert that met three stored entries and left four well-formed ones.
C1_Witness ==
    /\ NonEmptyInsert
    /\ Cardinality(DOMAIN prev) >= 3
    /\ Cardinality({s \in DOMAIN prev : s < op.end /\ prev[s][1] > op.start}) >= 3
    /\ Cardinality(DOMAIN map) >= 4
    /\ WellFormed(map)

\* C2: after any sequence of inserts over non-empty ranges no two touching
\* stored entries carry coalesce-fusable values: equal-valued touching
\* neighbours are fused, different-valued ones stay separate.
C2_NoFusableNeighbours == NoFusablePair(map)

\* An insert whose value equals that of a stored entry touching the range on
\* the right, leaving it fused, next to a different-valued touching entry.
C2_Witness ==
    /\ NonEmptyInsert
    /\ op.end \in DOMAIN prev
    /\ prev[op.end][2] = op.value
    /\ \E s \in DOMAIN map : s <= op.start /\ map[s][1] > op.end
                              /\ map[s][2] = op.value
    /\ \E s1 \in DOMAIN map, s2 \in DOMAIN map :
          s1 # s2 /\ map[s1][1] = s2 /\ map[s1][2] # map[s2][2]
    /\ NoFusablePair(map)

\* C3: after insert_with over a non-empty range, every point of the range that
\* was covered with value v carries merge(v, value), and every point of the
\* range that was uncovered carries value.
C3_MergeOnOverlap ==
    NonEmptyInsert =>
        \A p \in Points :
            InRange(p) =>
                ValuesAt(map, p) =
                    IF ValuesAt(prev, p) = {} THEN {op.value}
                    ELSE {Merge(op.merge, v, op.value) : v \in ValuesAt(prev, p)}

\* C4: an insert over a non-empty range changes nothing outside the range:
\* every point outside it carries what it carried before.
C4_Frame ==
    NonEmptyInsert =>
        \A p \in Points : ~InRange(p) => ValuesAt(map, p) = ValuesAt(prev, p)

\* C5: after insert_replace(r, v) with a non-empty r, range(r) yields exactly
\* one entry, which carries v and covers every point of r.
C5_ReplaceThenRange ==
    (NonEmptyInsert /\ op.kind = "insert_replace") =>
        LET q == RangeQuery(map, op.start, op.end)
        IN /\ Len(q) = 1
           /\ q[1][3] = op.value
           /\ q[1][1] <= op.start
           /\ q[1][2] >= op.end

\* An insert_replace over two stored entries with other values and a gap.
C5_Witness ==
    /\ NonEmptyInsert
    /\ op.kind = "insert_replace"
    /\ Cardinality({s \in DOMAIN prev : op.start < s /\ prev[s][1] < op.end
                                        /\ prev[s][2] # op.value}) >= 1
    /\ \E s \in DOMAIN prev : s < op.start /\ prev[s][1] > op.start
                              /\ prev[s][2] # op.value
    /\ \E p \in Points : InRange(p) /\ ValuesAt(prev, p) = {}
    /\ Len(RangeQuery(map, op.start, op.end)) = 1

\* C6: insert_replace is idempotent: a second insert_replace(r, v) right after
\* the first leaves the map as the first left it.
C6_ReplaceIdempotent ==
    (NonEmptyInsert /\ op.kind = "insert_replace") =>
        InsertReplace(map, op.start, op.end, op.value)
            = [map |-> map, panicked |-> FALSE]

\* The map holds the single entry rs..re -> v: what insert_replace(rs..re, v)
\* leaves of an empty map.
IsSingle(m, rs, re, v) == DOMAIN m = {rs} /\ m[rs] = <<re, v>>

\* C7: from an empty map, insert_replace(r1, v) then insert_replace(r2, v)
\* with r1 and r2 touching or overlapping leaves the single entry r1 u r2 -> v.
C7_UnionOfTwo ==
    (NonEmptyInsert /\ op.kind = "insert_replace") =>
        \A s1 \in Keys, e1 \in Keys :
            (/\ s1 < e1
             /\ IsSingle(prev, s1, e1, op.value)
             /\ InsertReplace(EmptyMap, s1, e1, op.value).map = prev
             /\ s1 <= op.end
             /\ op.start <= e1)
            => IsSingle(map, MinOf(s1, op.start),
                        IF e1 >= op.end THEN e1 ELSE op.end, op.value)

\* C8: an insert whose range is zero-width or inverted is a no-op: it does not
\* panic, stores no entry with start >= end and leaves every entry unchanged.
C8_IllFormedNoOp ==
    (IsInsert /\ op.start >= op.end) =>
        /\ ~panicked
        /\ \A s \in DOMAIN map : s >= map[s][1] => s \in DOMAIN prev
        /\ map = prev

\* The stored entries that intersect qs..qe, in ascending order of start.
Intersecting(m, qs, qe) ==
    LET keys == SortedSeq({s \in DOMAIN m : s < qe /\ m[s][1] > qs})
    IN [i \in 1 .. Len(keys) |-> <<keys[i], m[keys[i]][1], m[keys[i]][2]>>]

\* C9: on a map satisfying the invariants, range(qs..qe) with qs < qe yields
\* exactly the stored entries with s < qe and e > qs, each once, ascending.
C9_RangeExact ==
    (op.kind = "range" /\ op.start < op.end /\ WellFormed(map)
        /\ NoFusablePair(map)) =>
        result = Intersecting(map, op.start, op.end)

\* A query that yields two entries while the map also holds an entry ending
\* exactly at qs and an entry starting exactly at qe, neither of them yielded.
C9_Witness ==
    /\ op.kind = "range"
    /\ op.start < op.end
    /\ ~panicked
    /\ WellFormed(map)
    /\ NoFusablePair(map)
    /\ Len(result) >= 2
    /\ \E s \in DOMAIN map : map[s][1] = op.start
    /\ op.end \in DOMAIN map
    /\ \A i \in 1 .. Len(result) : result[i][1] < op.end /\ result[i][2] > op.start

\* C10: a zero-width query range(q..q) yields no entry, also when q lies
\* strictly inside a stored range.
C10_ZeroWidthQueryEmpty ==
    (op.kind = "range" /\ op.start = op.end) => result = <<>>

====
